---- MODULE Spec2Model ----
(***************************************************************************)
(* State-machine model of the SAKSHAM PRAVESH backend (src/main.py,        *)
(* src/schemas.py): registration, login, bearer-token authentication, the  *)
(* admin role gate, the OTP stub and the content routes.                   *)
(*                                                                         *)
(* Conventions.  An optional value (Python None / a missing key) is a      *)
(* sequence of length 0 or 1.  Time is counted in whole minutes.  An       *)
(* e-mail address is a record [local, domain] whose domain is a sequence   *)
(* of characters.  An operator that stands for a call whose result the     *)
(* code does not determine (a random salt, a point lookup among several    *)
(* matches, the expiry comparison at the exact expiry instant) yields the  *)
(* SET of results the call can produce.                                    *)
(***************************************************************************)
EXTENDS Integers, Sequences, FiniteSets, TLC

VARIABLES
    db,           \* is the module-level store handle configured (truthy)
    user,         \* collection "user"
    otprequest,   \* collection "otprequest"
    package,      \* collection "package"
    blogpost,     \* collection "blogpost"
    lead,         \* collection "lead"
    appointment,  \* collection "appointment"
    upload,       \* collection "upload"
    now,          \* datetime.utcnow(), in minutes
    ticks,        \* how many times the clock has been advanced
    resp,         \* the request handled by the last step and its response
    issued,       \* log: the token last returned by register/login, if any
    started,      \* log: (target, purpose) pairs of the otp_start calls
    reg           \* register requests in flight (interleaved execution)

vars == <<db, user, otprequest, package, blogpost, lead, appointment, upload,
          now, ticks, resp, issued, started, reg>>

stores == <<user, otprequest, package, blogpost, lead, appointment, upload>>

---------------------------------------------------------------------------
(* Bounds of the model *)

MaxTicks == 3
MaxDocs == 1
MaxOtp == 2
MaxReq == 2

(* Program constants *)

JWT_SECRET == "devsecret"
JWT_ALGO == "HS256"
TOKEN_EXPIRE_MINUTES == 60 * 24
OTP_EXPIRE_MINUTES == 10
DEV_CODE == "123456"

---------------------------------------------------------------------------
(* Inputs *)

Names == {"A"}
Passwords == {"pw", "bad"}
Salts == {"s1"}
Mail(l, d) == [local |-> l, domain |-> d]
EmailInputs == {Mail("a", <<"x">>), Mail("a", <<"X">>)}
AdminEmail == Mail("root", <<"x">>)
PlainEmail == Mail("b", <<"x">>)
Slugs == {"p1"}
FileNames == {"f.png"}
Channels == {"email"}
Targets == {"t1", "t2"}
StartTargets == {"t1"}
Purposes == {"signup", "login"}
Codes == {DEV_CODE, "000000"}
ClockSteps == {1, TOKEN_EXPIRE_MINUTES - 1}

---------------------------------------------------------------------------
(* Libraries *)

\* email-validator, as pydantic's EmailStr applies it: the domain part is
\* lower-cased, the local part is kept.
Lower(c) == IF c = "X" THEN "x" ELSE c
EmailStr(e) == [local |-> e.local,
                domain |-> [i \in 1..Len(e.domain) |-> Lower(e.domain[i])]]

\* passlib bcrypt: a salted hash; verification re-hashes with the stored salt.
hash_password(password) ==
    {[scheme |-> "bcrypt", salt |-> s, secret |-> password] : s \in Salts}

verify_password(password, hashed) ==
    /\ hashed # <<>>
    /\ hashed[1].scheme = "bcrypt"
    /\ hashed[1].secret = password

\* mutant: the lifetime taken as one hour
create_token_hour(sub) ==
    [kind |-> "jwt", alg |-> JWT_ALGO, key |-> JWT_SECRET, sub |-> sub,
     exp |-> now + 60]

\* jwt.encode of {"sub": ..., "exp": utcnow() + TOKEN_EXPIRE_MINUTES}
create_token(sub) ==
    [kind |-> "jwt", alg |-> JWT_ALGO, key |-> JWT_SECRET, sub |-> sub,
     exp |-> now + TOKEN_EXPIRE_MINUTES]

\* mutant: the signature is not verified
jwt_decode_unverified(token) ==
    IF token.kind # "jwt" THEN {"DecodeError"}
    ELSE IF token.exp < now THEN {"ExpiredSignatureError"}
    ELSE IF token.exp = now THEN {"ExpiredSignatureError", "ok"}
    ELSE {"ok"}

\* jwt.decode(token, JWT_SECRET, algorithms=[JWT_ALGO]): the exception it
\* raises, or "ok".  At the exact expiry instant the outcome depends on the
\* library version (exp < now or exp <= now), so both are possible.
jwt_decode(token) ==
    IF token.kind # "jwt" THEN {"DecodeError"}
    ELSE IF token.alg # JWT_ALGO THEN {"InvalidAlgorithmError"}
    ELSE IF token.key # JWT_SECRET THEN {"InvalidSignatureError"}
    ELSE IF token.exp < now THEN {"ExpiredSignatureError"}
    ELSE IF token.exp = now THEN {"ExpiredSignatureError", "ok"}
    ELSE {"ok"}

---------------------------------------------------------------------------
(* Document store *)

create_document(coll, doc) == Append(coll, doc)

get_documents(coll) == coll

\* db.user.find_one({"email": email}): None, or one of the matching records
find_one_user(email) ==
    LET hits == {i \in 1..Len(user) : user[i].email = email}
    IN  IF hits = {} THEN {<<>>} ELSE {<<user[i]>> : i \in hits}

\* db.otprequest.find_one({"target":..., "code":..., "purpose":...})
find_one_otp(target, code, purpose) ==
    LET hits == {i \in 1..Len(otprequest) :
                    /\ otprequest[i].target = target
                    /\ otprequest[i].code = code
                    /\ otprequest[i].purpose = purpose}
    IN  IF hits = {} THEN {<<>>} ELSE {<<otprequest[i]>> : i \in hits}

\* schemas.User(name=..., email=..., password_hash=...)
User(name, email, password_hash) ==
    [name |-> name, email |-> EmailStr(email), phone |-> <<>>,
     password_hash |-> <<password_hash>>, role |-> "user",
     is_verified |-> FALSE]

\* schemas.OTPRequest(...)
OTPRequest(channel, target, code, purpose, expires_at) ==
    [channel |-> channel, target |-> target, code |-> code,
     purpose |-> purpose, expires_at |-> expires_at, verified |-> FALSE]

\* schemas.Upload(user_email=..., filename=..., url=...)
Upload(user_email, filename, url) ==
    [user_email |-> <<user_email>>, filename |-> filename, url |-> url,
     purpose |-> <<>>]

---------------------------------------------------------------------------
(* Requests and responses *)

NoResp ==
    [route |-> "", tok |-> <<>>, email |-> <<>>, password |-> <<>>,
     otp |-> <<>>, status |-> 0, detail |-> "", identity |-> <<>>,
     token |-> <<>>, docs |-> <<>>, url |-> <<>>, order |-> <<>>]

HTTPException(status_code, detail) ==
    [status |-> status_code, detail |-> detail, identity |-> <<>>]

\* mutant: the role is the one the user had when the token was issued
get_current_user_try_stale(token) ==
    UNION {
        IF d # "ok" THEN {[raised |-> d, detail |-> "", identity |-> <<>>]}
        ELSE IF token.sub = <<>>
        THEN {[raised |-> "HTTPException", detail |-> "Invalid token",
               identity |-> <<>>]}
        ELSE {IF u = <<>>
              THEN [raised |-> "HTTPException", detail |-> "User not found",
                    identity |-> <<>>]
              ELSE [raised |-> "", detail |-> "",
                    identity |-> <<[email |-> u[1].email, name |-> u[1].name,
                                    role |-> IF issued # <<>> /\ issued[1].tok = token
                                             THEN issued[1].role
                                             ELSE u[1].role]>>]
              : u \in (IF db THEN find_one_user(token.sub[1]) ELSE {<<>>})}
        : d \in jwt_decode(token)}

\* The body of the try block of get_current_user: the identity it returns or
\* the exception it raises.
get_current_user_try(token) ==
    UNION {
        IF d # "ok" THEN {[raised |-> d, detail |-> "", identity |-> <<>>]}
        ELSE IF token.sub = <<>>
        THEN {[raised |-> "HTTPException", detail |-> "Invalid token",
               identity |-> <<>>]}
        ELSE {IF u = <<>>
              THEN [raised |-> "HTTPException", detail |-> "User not found",
                    identity |-> <<>>]
              ELSE [raised |-> "", detail |-> "",
                    identity |-> <<[email |-> u[1].email, name |-> u[1].name,
                                    role |-> u[1].role]>>]
              : u \in (IF db THEN find_one_user(token.sub[1]) ELSE {<<>>})}
        : d \in jwt_decode(token)}

\* The except clauses of get_current_user, in their order.
get_current_user_except(r) ==
    IF r.raised = "" THEN [status |-> 200, detail |-> "", identity |-> r.identity]
    ELSE IF r.raised = "ExpiredSignatureError"
    THEN HTTPException(401, "Token expired")
    ELSE HTTPException(401, "Invalid token")

\* Depends(get_current_user) behind Depends(oauth2_scheme)
get_current_user(tok) ==
    IF tok = <<>> THEN {HTTPException(401, "Not authenticated")}
    ELSE {get_current_user_except(r) : r \in get_current_user_try(tok[1])}


\* mutant: the comparison inverted
is_forbidden_inverted(identity) == identity.role = "admin"

\* user.get("role") != "admin": the role gate of the four admin routes
is_forbidden(identity) == identity.role # "admin"

\* mutant: the existence check is skipped
register_check_blind(email) ==
    IF ~db THEN {HTTPException(500, "Database not configured")}
    ELSE {[status |-> 200, detail |-> "", identity |-> <<>>]}

\* register, up to the existence check: the error raised, or 200 to go on
register_check(email) ==
    IF ~db THEN {HTTPException(500, "Database not configured")}
    ELSE {IF u # <<>> THEN HTTPException(400, "Email already registered")
          ELSE [status |-> 200, detail |-> "", identity |-> <<>>]
          : u \in find_one_user(email)}

\* mutant: an unknown e-mail gets a message of its own
login_check_telling(username, password) ==
    IF ~db THEN {HTTPException(500, "Database not configured")}
    ELSE {IF u = <<>> THEN HTTPException(400, "User not found")
          ELSE IF ~verify_password(password, u[1].password_hash)
          THEN HTTPException(400, "Incorrect email or password")
          ELSE [status |-> 200, detail |-> "",
                identity |-> <<[email |-> u[1].email, name |-> u[1].name,
                                role |-> u[1].role]>>]
          : u \in find_one_user(username)}

\* login, up to the credential check: the error raised, or the user found
login_check(username, password) ==
    IF ~db THEN {HTTPException(500, "Database not configured")}
    ELSE {IF u = <<>> \/ ~verify_password(password, u[1].password_hash)
          THEN HTTPException(400, "Incorrect email or password")
          ELSE [status |-> 200, detail |-> "",
                identity |-> <<[email |-> u[1].email, name |-> u[1].name,
                                role |-> u[1].role]>>]
          : u \in find_one_user(username)}

\* mutant: the record's expiry is enforced
otp_verify_expiring(target, code, purpose) ==
    IF ~db THEN {HTTPException(500, "Database not configured")}
    ELSE {IF r = <<>> \/ (r # <<>> /\ r[1].expires_at < now)
          THEN HTTPException(400, "Invalid code")
          ELSE [status |-> 200, detail |-> "", identity |-> <<>>]
          : r \in find_one_otp(target, code, purpose)}

\* otp_verify: the response status and detail
otp_verify(target, code, purpose) ==
    IF ~db THEN {HTTPException(500, "Database not configured")}
    ELSE {IF r = <<>> THEN HTTPException(400, "Invalid code")
          ELSE [status |-> 200, detail |-> "", identity |-> <<>>]
          : r \in find_one_otp(target, code, purpose)}

---------------------------------------------------------------------------
(* Tokens a client can present *)

Subjects == {EmailStr(e) : e \in EmailInputs} \cup {AdminEmail, PlainEmail}

Garbage ==
    [kind |-> "garbage", alg |-> "", key |-> "", sub |-> <<>>, exp |-> 0]

\* Well-formed tokens this process did not issue: signed with the secret
\* (by an earlier run or another instance) or with some other key.
ForeignTokens ==
    {[kind |-> "jwt", alg |-> JWT_ALGO, key |-> JWT_SECRET, sub |-> s, exp |-> e]
        : s \in {<<x>> : x \in Subjects} \cup {<<>>},
          e \in {now + 1, now - 1}}
    \cup {[kind |-> "jwt", alg |-> JWT_ALGO, key |-> "other",
           sub |-> <<AdminEmail>>, exp |-> now + 1]}

TokenInputs ==
    {<<>>} \cup {<<t>> : t \in {Garbage} \cup ForeignTokens
                              \cup {issued[i].tok : i \in 1..Len(issued)}}

OtpArgs(target, code, purpose) ==
    <<[target |-> target, code |-> code, purpose |-> purpose]>>

Request(route, tok) == [NoResp EXCEPT !.route = route, !.tok = tok]

Reject(req, a) == [req EXCEPT !.status = a.status, !.detail = a.detail]

Log(token, role) == <<[tok |-> token, at |-> now, role |-> role]>>

---------------------------------------------------------------------------
(* State *)

AdminRecord ==
    [name |-> "Root", email |-> AdminEmail, phone |-> <<>>,
     password_hash |-> <<[scheme |-> "bcrypt", salt |-> "s0", secret |-> "pw"]>>,
     role |-> "admin", is_verified |-> TRUE]

PlainRecord ==
    [name |-> "B", email |-> PlainEmail, phone |-> <<>>,
     password_hash |-> <<[scheme |-> "bcrypt", salt |-> "s0", secret |-> "pw"]>>,
     role |-> "user", is_verified |-> FALSE]

\* What the store can hold when the process starts.
SeedUsers == {<<>>, <<AdminRecord>>, <<AdminRecord, PlainRecord>>}

IdleReg ==
    [pc |-> "idle", name |-> "", email |-> <<>>, password |-> "",
     status |-> 0, detail |-> "", token |-> <<>>, overlapped |-> {}]

Init ==
    /\ db \in BOOLEAN
    /\ user \in (IF db THEN SeedUsers ELSE {<<>>})
    /\ otprequest = <<>>
    /\ package = <<>>
    /\ blogpost = <<>>
    /\ lead = <<>>
    /\ appointment = <<>>
    /\ upload = <<>>
    /\ now = 0
    /\ ticks = 0
    /\ resp = NoResp
    /\ issued = <<>>
    /\ started = {}
    /\ reg = [r \in 1..MaxReq |-> IdleReg]

\* Time passes between requests.
Tick(d) ==
    /\ ticks < MaxTicks
    /\ now' = now + d
    /\ ticks' = ticks + 1
    /\ resp' = NoResp
    /\ UNCHANGED <<db, stores, issued, started, reg>>

---------------------------------------------------------------------------
(* Route handlers, each executed as a whole *)

\* POST /auth/register
Register(name, rawEmail, password) ==
    LET email == EmailStr(rawEmail)
        req == [NoResp EXCEPT !.route = "register", !.email = <<rawEmail>>,
                              !.password = <<password>>]
    IN  \E c \in register_check(email) :
          IF c.status # 200
          THEN /\ resp' = Reject(req, c)
               /\ UNCHANGED <<db, stores, now, ticks, issued, started, reg>>
          ELSE \E h \in hash_password(password) :
               LET token == create_token(<<email>>)
               IN  /\ user' = create_document(user, User(name, email, h))
                   /\ resp' = [req EXCEPT !.status = 200, !.token = <<token>>]
                   /\ issued' = Log(token, "user")
                   /\ UNCHANGED <<db, otprequest, package, blogpost, lead,
                                  appointment, upload, now, ticks, started, reg>>

\* POST /auth/login
Login(username, password) ==
    LET req == [NoResp EXCEPT !.route = "login", !.email = <<username>>,
                              !.password = <<password>>]
    IN  \E c \in login_check(username, password) :
          IF c.status # 200
          THEN /\ resp' = Reject(req, c)
               /\ UNCHANGED <<db, stores, now, ticks, issued, started, reg>>
          ELSE LET token == create_token(<<c.identity[1].email>>)
               IN  /\ resp' = [req EXCEPT !.status = 200, !.token = <<token>>]
                   /\ issued' = Log(token, c.identity[1].role)
                   /\ UNCHANGED <<db, stores, now, ticks, started, reg>>

\* POST /packages
CreatePackage(tok, pkg) ==
    LET req == Request("create_package", tok)
    IN  \E a \in get_current_user(tok) :
          IF a.status # 200
          THEN /\ resp' = Reject(req, a)
               /\ UNCHANGED <<db, stores, now, ticks, issued, started, reg>>
          ELSE IF is_forbidden(a.identity[1])
          THEN /\ resp' = [req EXCEPT !.status = 403, !.detail = "Forbidden",
                                      !.identity = a.identity]
               /\ UNCHANGED <<db, stores, now, ticks, issued, started, reg>>
          ELSE /\ Len(package) < MaxDocs
               /\ package' = create_document(package, pkg)
               /\ resp' = [req EXCEPT !.status = 200, !.identity = a.identity]
               /\ UNCHANGED <<db, user, otprequest, blogpost, lead, appointment,
                              upload, now, ticks, issued, started, reg>>

\* POST /blog
CreatePost(tok, post) ==
    LET req == Request("create_post", tok)
    IN  \E a \in get_current_user(tok) :
          IF a.status # 200
          THEN /\ resp' = Reject(req, a)
               /\ UNCHANGED <<db, stores, now, ticks, issued, started, reg>>
          ELSE IF is_forbidden(a.identity[1])
          THEN /\ resp' = [req EXCEPT !.status = 403, !.detail = "Forbidden",
                                      !.identity = a.identity]
               /\ UNCHANGED <<db, stores, now, ticks, issued, started, reg>>
          ELSE /\ Len(blogpost) < MaxDocs
               /\ blogpost' = create_document(blogpost, post)
               /\ resp' = [req EXCEPT !.status = 200, !.identity = a.identity]
               /\ UNCHANGED <<db, user, otprequest, package, lead, appointment,
                              upload, now, ticks, issued, started, reg>>

\* POST /lead
CreateLead(doc) ==
    LET req == Request("create_lead", <<>>)
    IN  IF ~db
        THEN /\ resp' = Reject(req, HTTPException(500, "Database not configured"))
             /\ UNCHANGED <<db, stores, now, ticks, issued, started, reg>>
        ELSE /\ Len(lead) < MaxDocs
             /\ lead' = create_document(lead, doc)
             /\ resp' = [req EXCEPT !.status = 200]
             /\ UNCHANGED <<db, user, otprequest, package, blogpost, appointment,
                            upload, now, ticks, issued, started, reg>>

\* POST /appointment
CreateAppointment(doc) ==
    LET req == Request("create_appointment", <<>>)
    IN  IF ~db
        THEN /\ resp' = Reject(req, HTTPException(500, "Database not configured"))
             /\ UNCHANGED <<db, stores, now, ticks, issued, started, reg>>
        ELSE /\ Len(appointment) < MaxDocs
             /\ appointment' = create_document(appointment, doc)
             /\ resp' = [req EXCEPT !.status = 200]
             /\ UNCHANGED <<db, user, otprequest, package, blogpost, lead,
                            upload, now, ticks, issued, started, reg>>

\* GET /admin/leads
AdminLeads(tok) ==
    LET req == Request("admin_leads", tok)
    IN  /\ \E a \in get_current_user(tok) :
             IF a.status # 200
             THEN resp' = Reject(req, a)
             ELSE IF is_forbidden(a.identity[1])
             THEN resp' = [req EXCEPT !.status = 403, !.detail = "Forbidden",
                                      !.identity = a.identity]
             ELSE resp' = [req EXCEPT !.status = 200, !.identity = a.identity,
                                      !.docs = get_documents(lead)]
        /\ UNCHANGED <<db, stores, now, ticks, issued, started, reg>>

\* GET /admin/appointments
AdminAppointments(tok) ==
    LET req == Request("admin_appointments", tok)
    IN  /\ \E a \in get_current_user(tok) :
             IF a.status # 200
             THEN resp' = Reject(req, a)
             ELSE IF is_forbidden(a.identity[1])
             THEN resp' = [req EXCEPT !.status = 403, !.detail = "Forbidden",
                                      !.identity = a.identity]
             ELSE resp' = [req EXCEPT !.status = 200, !.identity = a.identity,
                                      !.docs = get_documents(appointment)]
        /\ UNCHANGED <<db, stores, now, ticks, issued, started, reg>>

\* POST /upload
UploadFile(tok, filename) ==
    LET req == Request("upload", tok)
    IN  \E a \in get_current_user(tok) :
          IF a.status # 200
          THEN /\ resp' = Reject(req, a)
               /\ UNCHANGED <<db, stores, now, ticks, issued, started, reg>>
          ELSE LET record == Upload(a.identity[1].email, filename,
                                    <<"/uploads/", filename>>)
               IN  /\ Len(upload) < MaxDocs
                   /\ upload' = create_document(upload, record)
                   /\ resp' = [req EXCEPT !.status = 200, !.identity = a.identity,
                                          !.url = record.url]
                   /\ UNCHANGED <<db, user, otprequest, package, blogpost, lead,
                                  appointment, now, ticks, issued, started, reg>>

\* POST /payments/init
PaymentInit(tok, package_slug) ==
    LET req == Request("payment_init", tok)
    IN  /\ \E a \in get_current_user(tok) :
             IF a.status # 200
             THEN resp' = Reject(req, a)
             ELSE resp' = [req EXCEPT !.status = 200, !.identity = a.identity,
                                      !.order = <<"ORDER_", now, 0>>]
        /\ UNCHANGED <<db, stores, now, ticks, issued, started, reg>>

Packages == {[slug |-> s, title |-> "T", price_inr |-> 0, is_popular |-> FALSE]
                : s \in Slugs}
Posts == {[slug |-> s, title |-> "T", content |-> "C", published |-> TRUE]
                : s \in Slugs}
Leads == {[name |-> "A", email |-> Mail("a", <<"x">>), source |-> "website",
           status |-> "new"]}
Appointments == {[name |-> "A", date |-> "2025-01-01", time |-> "10:00",
                  status |-> "pending"]}

LoginInputs == EmailInputs \cup {AdminEmail, PlainEmail}

\* Registration, login and the auth middleware over time.
Next ==
    \/ \E d \in ClockSteps : Tick(d)
    \/ \E n \in Names, e \in EmailInputs, p \in Passwords : Register(n, e, p)
    \/ \E e \in LoginInputs, p \in Passwords : Login(e, p)
    \/ \E t \in TokenInputs, s \in Slugs : PaymentInit(t, s)

Spec == Init /\ [][Next]_vars

\* The protected routes and the collections behind them.
NextGate ==
    \/ \E t \in TokenInputs, d \in Packages : CreatePackage(t, d)
    \/ \E t \in TokenInputs, d \in Posts : CreatePost(t, d)
    \/ \E d \in Leads : CreateLead(d)
    \/ \E d \in Appointments : CreateAppointment(d)
    \/ \E t \in TokenInputs : AdminLeads(t)
    \/ \E t \in TokenInputs : AdminAppointments(t)
    \/ \E t \in TokenInputs, f \in FileNames : UploadFile(t, f)
    \/ \E t \in TokenInputs, s \in Slugs : PaymentInit(t, s)

SpecGate == Init /\ [][NextGate]_vars

---------------------------------------------------------------------------
(* The OTP stub *)

\* POST /auth/otp/start
OtpStart(channel, target, purpose) ==
    LET req == [NoResp EXCEPT !.route = "otp_start",
                              !.otp = OtpArgs(target, DEV_CODE, purpose)]
    IN  IF ~db
        THEN /\ resp' = Reject(req, HTTPException(500, "Database not configured"))
             /\ UNCHANGED <<db, stores, now, ticks, issued, started, reg>>
        ELSE LET record == OTPRequest(channel, target, DEV_CODE, purpose,
                                      now + OTP_EXPIRE_MINUTES)
             IN  /\ Len(otprequest) < MaxOtp
                 /\ otprequest' = create_document(otprequest, record)
                 /\ started' = started \cup {<<target, purpose>>}
                 /\ resp' = [req EXCEPT !.status = 200]
                 /\ UNCHANGED <<db, user, package, blogpost, lead, appointment,
                                upload, now, ticks, issued, reg>>

\* POST /auth/otp/verify
OtpVerify(target, code, purpose) ==
    LET req == [NoResp EXCEPT !.route = "otp_verify",
                              !.otp = OtpArgs(target, code, purpose)]
    IN  /\ \E o \in otp_verify(target, code, purpose) : resp' = Reject(req, o)
        /\ UNCHANGED <<db, stores, now, ticks, issued, started, reg>>

NextOtp ==
    \/ \E d \in ClockSteps : Tick(d)
    \/ \E c \in Channels, t \in StartTargets, p \in Purposes : OtpStart(c, t, p)
    \/ \E t \in Targets, c \in Codes, p \in Purposes : OtpVerify(t, c, p)

SpecOtp == Init /\ [][NextOtp]_vars

---------------------------------------------------------------------------
(* The store changed from outside the handlers: a user's role is edited *)

StoreSetRole(i, role) ==
    /\ db
    /\ i \in 1..Len(user)
    /\ user[i].role # role
    /\ user' = [user EXCEPT ![i].role = role]
    /\ resp' = NoResp
    /\ UNCHANGED <<db, otprequest, package, blogpost, lead, appointment, upload,
                   now, ticks, issued, started, reg>>

NextRoles ==
    \/ \E i \in 1..Len(user), r \in {"user", "admin"} : StoreSetRole(i, r)
    \/ \E e \in LoginInputs, p \in Passwords : Login(e, p)
    \/ \E t \in TokenInputs, d \in Packages : CreatePackage(t, d)
    \/ \E t \in TokenInputs : AdminLeads(t)

SpecRoles == Init /\ [][NextRoles]_vars

---------------------------------------------------------------------------
(* Register requests executed concurrently: the existence check and the     *)
(* insert of one request are separate steps, and other requests run between *)

\* register, lines up to the existence check
RegBegin(r, name, rawEmail, password) ==
    LET email == EmailStr(rawEmail)
    IN  /\ reg[r].pc = "idle"
        /\ \E c \in register_check(email) :
             reg' = [reg EXCEPT ![r] =
                        [IdleReg EXCEPT !.pc = IF c.status = 200 THEN "checked"
                                              ELSE "done",
                                        !.name = name, !.email = <<email>>,
                                        !.password = password,
                                        !.status = IF c.status = 200 THEN 0
                                                  ELSE c.status,
                                        !.detail = c.detail]]
        /\ resp' = NoResp
        /\ UNCHANGED <<db, stores, now, ticks, issued, started>>

\* mutant: the insert is refused when the e-mail has been stored meanwhile
RegFinishUnique(r) ==
    /\ reg[r].pc = "checked"
    /\ IF \E i \in 1..Len(user) : user[i].email = reg[r].email[1]
       THEN /\ reg' = [reg EXCEPT ![r].pc = "done", ![r].status = 400,
                                  ![r].detail = "Email already registered",
                                  ![r].overlapped =
                                      {q \in DOMAIN reg :
                                          q # r /\ reg[q].pc = "checked"}]
            /\ UNCHANGED <<user, issued>>
       ELSE \E h \in hash_password(reg[r].password) :
            LET email == reg[r].email[1]
                token == create_token(<<email>>)
            IN  /\ user' = create_document(user, User(reg[r].name, email, h))
                /\ reg' = [reg EXCEPT ![r].pc = "done", ![r].status = 200,
                                      ![r].token = <<token>>,
                                      ![r].overlapped =
                                          {q \in DOMAIN reg :
                                              q # r /\ reg[q].pc = "checked"}]
                /\ issued' = Log(token, "user")
    /\ resp' = NoResp
    /\ UNCHANGED <<db, otprequest, package, blogpost, lead, appointment, upload,
                   now, ticks, started>>

\* register, from the hash to the response
RegFinish(r) ==
    /\ reg[r].pc = "checked"
    /\ \E h \in hash_password(reg[r].password) :
         LET email == reg[r].email[1]
             token == create_token(<<email>>)
         IN  /\ user' = create_document(user, User(reg[r].name, email, h))
             /\ reg' = [reg EXCEPT ![r].pc = "done", ![r].status = 200,
                                   ![r].token = <<token>>,
                                   ![r].overlapped =
                                       {q \in DOMAIN reg :
                                           q # r /\ reg[q].pc = "checked"}]
             /\ issued' = Log(token, "user")
    /\ resp' = NoResp
    /\ UNCHANGED <<db, otprequest, package, blogpost, lead, appointment, upload,
                   now, ticks, started>>

NextRace ==
    \/ \E r \in 1..MaxReq, n \in Names, e \in EmailInputs, p \in Passwords :
          RegBegin(r, n, e, p)
    \/ \E r \in 1..MaxReq : RegFinish(r)
    \/ \E e \in LoginInputs, p \in Passwords : Login(e, p)
    \/ \E t \in TokenInputs, s \in Slugs : PaymentInit(t, s)

SpecRace == Init /\ [][NextRace]_vars

---------------------------------------------------------------------------
(* Vocabulary of the properties: what a token is, read off the token and    *)
(* the store without running the middleware                                 *)

AdminRoutes ==
    {"create_package", "create_post", "admin_leads", "admin_appointments"}

ProtectedRoutes == AdminRoutes \cup {"upload", "payment_init"}

WellSigned(tok) ==
    /\ tok # <<>>
    /\ tok[1].kind = "jwt"
    /\ tok[1].alg = "HS256"
    /\ tok[1].key = "devsecret"

RolesOf(email) == {user[i].role : i \in {j \in 1..Len(user) : user[j].email = email}}

\* signed, not expired, and naming a stored user
Resolves(tok) ==
    /\ WellSigned(tok)
    /\ tok[1].exp > now
    /\ tok[1].sub # <<>>
    /\ db
    /\ RolesOf(tok[1].sub[1]) # {}

\* missing, malformed, badly signed, expired, without subject, or naming
\* nobody in the store
BadToken(tok) ==
    \/ ~WellSigned(tok)
    \/ tok[1].exp < now
    \/ tok[1].sub = <<>>
    \/ ~db
    \/ RolesOf(tok[1].sub[1]) = {}

EmptyBody(r) ==
    r.identity = <<>> /\ r.docs = <<>> /\ r.url = <<>> /\ r.order = <<>>
        /\ r.token = <<>>

---------------------------------------------------------------------------
C1_Forbidden ==
    (resp.route \in AdminRoutes /\ Resolves(resp.tok)
        /\ "admin" \notin RolesOf(resp.tok[1].sub[1]))
    => (resp.status = 403 /\ resp.detail = "Forbidden" /\ resp.docs = <<>>)

C1_Step ==
    /\ (resp'.route \in AdminRoutes /\ resp'.status = 403) => UNCHANGED stores
    /\ package' # package
        => /\ resp'.route = "create_package"
           /\ Resolves(resp'.tok)
           /\ RolesOf(resp'.tok[1].sub[1]) = {"admin"}
    /\ blogpost' # blogpost
        => /\ resp'.route = "create_post"
           /\ Resolves(resp'.tok)
           /\ RolesOf(resp'.tok[1].sub[1]) = {"admin"}

\* C1: on every admin-gated route a request whose token resolves to a user
\* whose stored role is not "admin" is answered 403 Forbidden, returns no
\* records and changes no collection; and a package or blog post is only
\* ever inserted by a create request whose token resolved to role "admin".
C1_AdminGate == [](C1_Forbidden) /\ [][C1_Step]_vars

C1_Witness ==
    /\ resp.route = "create_package"
    /\ resp.status = 403
    /\ Resolves(resp.tok)
    /\ Len(package) = 1

C2_Rejected ==
    (resp.route \in ProtectedRoutes /\ BadToken(resp.tok))
    => (resp.status = 401 /\ EmptyBody(resp))

C2_Step ==
    (resp'.route \in ProtectedRoutes /\ BadToken(resp'.tok)) => UNCHANGED stores

\* C2: on every protected route a request whose token is missing, malformed,
\* badly signed, expired, without subject or naming an unknown subject is
\* answered 401 with no identity and an empty body, and changes no collection.
C2_Unauthorized == [](C2_Rejected) /\ [][C2_Step]_vars

C2_Witness ==
    /\ resp.route = "upload"
    /\ resp.status = 401
    /\ WellSigned(resp.tok)
    /\ resp.tok[1].exp < now
    /\ resp.tok[1].sub # <<>>
    /\ RolesOf(resp.tok[1].sub[1]) # {}

---------------------------------------------------------------------------
Present(email) == \E i \in 1..Len(user) : user[i].email = email

C3_Unique ==
    \A i, j \in 1..Len(user) : user[i].email = user[j].email => i = j

C3_Step ==
    (resp'.route = "register" /\ db)
    => LET email == EmailStr(resp'.email[1])
       IN  IF Present(email)
           THEN /\ resp'.status = 400
                /\ resp'.detail = "Email already registered"
                /\ resp'.token = <<>>
                /\ user' = user
           ELSE /\ resp'.status = 200
                /\ resp'.token # <<>>
                /\ Len(user') = Len(user) + 1
                /\ SubSeq(user', 1, Len(user)) = user
                /\ user'[Len(user')].email = email

\* C3: with register calls executed one after another on a configured store,
\* a register whose (validated) e-mail is not stored succeeds, appends exactly
\* one record for it and returns a token; a register whose e-mail is stored
\* fails 400 "Email already registered" with no token and leaves the
\* collection unchanged; the collection never holds an e-mail twice.
C3_RegisterOnce == [](C3_Unique) /\ [][C3_Step]_vars

C3_Witness ==
    /\ resp.route = "register"
    /\ resp.status = 400
    /\ \E i \in 1..Len(user) : user[i].email = EmailStr(resp.email[1])
                                /\ user[i].name \in Names

C4_Failure ==
    (resp.route = "login" /\ db /\ resp.status # 200)
    => /\ resp.status = 400
       /\ resp.detail = "Incorrect email or password"
       /\ EmptyBody(resp)

C4_Cases ==
    (resp.route = "login" /\ db)
    => /\ ~Present(resp.email[1]) => resp.status = 400
       /\ (\A i \in 1..Len(user) :
              user[i].email = resp.email[1]
              => user[i].password_hash[1].secret # resp.password[1])
          => resp.status = 400

C4_Step == resp'.route = "login" => UNCHANGED stores

\* C4: a login that fails because the e-mail is not stored and a login that
\* fails because the password does not verify get the same response, 400
\* "Incorrect email or password" with no token, and login changes no record.
C4_LoginOpaque == [](C4_Failure /\ C4_Cases) /\ [][C4_Step]_vars

C4_Witness ==
    /\ resp.route = "login"
    /\ resp.status = 400
    /\ Present(resp.email[1])
    /\ Len(user) > 1

\* C5: a token issued at time T for a stored subject is accepted by the auth
\* middleware at every time before T + 1440 minutes and rejected 401
\* "Token expired" at every time after T + 1440 minutes.
C5_Lifetime ==
    \A i \in 1..Len(issued) :
        (resp.route \in ProtectedRoutes /\ resp.tok = <<issued[i].tok>>)
        => /\ now < issued[i].at + 1440
                => (resp.status = 200 /\ resp.identity # <<>>)
           /\ now > issued[i].at + 1440
                => (resp.status = 401 /\ resp.detail = "Token expired")

C5_Witness ==
    /\ issued # <<>>
    /\ resp.route = "payment_init"
    /\ resp.tok = <<issued[1].tok>>
    /\ now = issued[1].at + 1441
    /\ resp.status = 401

\* C6: a signed, unexpired token whose subject has no user record is rejected
\* 401 with the reason "User not found".
C6_UserNotFound ==
    (/\ resp.route \in ProtectedRoutes
     /\ WellSigned(resp.tok)
     /\ resp.tok[1].exp > now
     /\ resp.tok[1].sub # <<>>
     /\ RolesOf(resp.tok[1].sub[1]) = {})
    => (resp.status = 401 /\ resp.detail = "User not found")

\* C8: after a successful register, a login with the same e-mail and
\* password succeeds, and the token register returned passes the middleware
\* and resolves to the registered e-mail with role "user".
C8_RegisterThenLogin ==
    (resp.route = "register" /\ resp.status = 200)
    => /\ \A c \in login_check(resp.email[1], resp.password[1]) : c.status = 200
       /\ \A a \in get_current_user(resp.token) :
             /\ a.status = 200
             /\ a.identity[1].email = resp.email[1]
             /\ a.identity[1].role = "user"

---------------------------------------------------------------------------
\* C7: a request on an admin route made with an issued, unexpired token is
\* allowed or forbidden by the role stored for its subject when the request
\* is made, whatever the role was when the token was issued.
C7_FreshRole ==
    \A i \in 1..Len(issued) :
        (/\ resp.route \in AdminRoutes
         /\ resp.tok = <<issued[i].tok>>
         /\ now < issued[i].tok.exp)
        => /\ RolesOf(issued[i].tok.sub[1]) = {"admin"} => resp.status = 200
           /\ RolesOf(issued[i].tok.sub[1]) = {"user"} => resp.status = 403

C7_Witness ==
    /\ issued # <<>>
    /\ issued[1].role = "admin"
    /\ resp.route = "admin_leads"
    /\ resp.tok = <<issued[1].tok>>
    /\ resp.status = 403

C9_Outcome ==
    (resp.route = "otp_verify" /\ db)
    => LET a == resp.otp[1]
           held == \E i \in 1..Len(otprequest) :
                      /\ otprequest[i].target = a.target
                      /\ otprequest[i].code = a.code
                      /\ otprequest[i].purpose = a.purpose
       IN  /\ held <=> (<<a.target, a.purpose>> \in started /\ a.code = "123456")
           /\ held => resp.status = 200
           /\ ~held => (resp.status = 400 /\ resp.detail = "Invalid code")

C9_Step == resp'.route = "otp_verify" => UNCHANGED stores

\* C9: on a configured store otp_verify answers verified exactly when the
\* store holds a record with the same target, code and purpose, that is when
\* an otp_start for that target and purpose came earlier and the code is
\* "123456"; otherwise 400 "Invalid code".  Expiry and the verified flag play
\* no part, and otp_verify changes no record.
C9_OtpVerify == [](C9_Outcome) /\ [][C9_Step]_vars

C9_Witness ==
    /\ resp.route = "otp_verify"
    /\ resp.status = 200
    /\ \A i \in 1..Len(otprequest) : otprequest[i].expires_at < now

\* C10: when two register requests for the same e-mail both pass the
\* existence check before either inserts, both succeed with a token and the
\* collection holds two records for that e-mail; a later login for it succeeds
\* exactly against one of the records the lookup can return.
C10_Race ==
    /\ \A r, q \in DOMAIN reg :
          (/\ r # q
           /\ reg[r].pc = "done" /\ reg[q].pc = "done"
           /\ reg[r].email = reg[q].email
           /\ q \in reg[r].overlapped)
          => /\ reg[r].status = 200 /\ reg[r].token # <<>>
             /\ reg[q].status = 200 /\ reg[q].token # <<>>
             /\ Cardinality({i \in 1..Len(user) :
                                user[i].email = reg[r].email[1]}) >= 2
    /\ (resp.route = "login" /\ resp.status = 200)
          => \E i \in 1..Len(user) :
                /\ user[i].email = resp.email[1]
                /\ user[i].password_hash[1].secret = resp.password[1]

C10_Witness ==
    /\ \E r, q \in DOMAIN reg :
          /\ r # q
          /\ reg[r].pc = "done" /\ reg[q].pc = "done"
          /\ reg[r].email = reg[q].email
          /\ q \in reg[r].overlapped
          /\ reg[r].password # reg[q].password
    /\ resp.route = "login"
    /\ resp.status = 200
    /\ resp.email = reg[1].email
    /\ Cardinality({i \in 1..Len(user) : user[i].email = resp.email[1]}) = 2

====
